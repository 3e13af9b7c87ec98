----------------------------- MODULE FeedSizeProofs -----------------------------
(***************************************************************************)
(* Proofs about OfflinePacketFeed that depend on the sizes of the files,   *)
(* for input files of any length.                                          *)
(*                                                                         *)
(* The size of a file is a sum over its records, which FileSize computes   *)
(* by recursion.  What it computes is proved by induction on sets of       *)
(* natural numbers: of any nonempty set there is a least element, so a set *)
(* that holds 0 and with each number the next one holds all of them.       *)
(***************************************************************************)
EXTENDS OfflinePacketFeedProofs, SequenceTheorems, WellFoundedInduction

-----------------------------------------------------------------------------
(* Induction. *)

LEMMA LeastElement ==
    ASSUME NEW T, T \subseteq Nat, T # {}
    PROVE  \E x \in T : \A y \in T : x <= y
<1> DEFINE R == OpToRel(<, Nat)
<1>1. IsWellFoundedOn(R, Nat)
    BY NatLessThanWellFounded
<1>2. \A x, y \in Nat : y < x => <<y, x>> \in R
    BY DEF OpToRel
<1> HIDE DEF R
<1>3. PICK x \in T : \A y \in T : ~ (<<y, x>> \in R)
    BY <1>1, WFMin
<1>4. ASSUME NEW y \in T PROVE x <= y
    <2>1. x \in Nat /\ y \in Nat
        OBVIOUS
    <2>2. ~ (y < x)
        BY <1>2, <1>3, <2>1, Zenon
    <2> QED
        BY <2>1, <2>2
<1> QED
    BY <1>4

LEMMA SetInduction ==
    ASSUME NEW S, 0 \in S, \A n \in Nat : n \in S => n + 1 \in S
    PROVE  \A n \in Nat : n \in S
<1> SUFFICES ASSUME Nat \ S # {} PROVE FALSE
    OBVIOUS
<1>1. PICK x \in Nat \ S : \A y \in Nat \ S : x <= y
    BY LeastElement
<1>2. x # 0 /\ x - 1 \in Nat /\ (x - 1) + 1 = x
    BY <1>1
<1>3. x - 1 \in S
    BY <1>1, <1>2
<1>4. x \in S
    BY <1>2, <1>3
<1> QED
    BY <1>4

-----------------------------------------------------------------------------
(* FileSize. *)

(* end[i] is where the i-th of these records ends. *)
AreEnds(end, lengths) ==
    end = [i \in 0 .. Len(lengths) |->
              IF i = 0 THEN GlobalHeaderSize ELSE end[i - 1] + PacketHeaderSize + lengths[i]]

(* The same of the first n records, point by point. *)
EndsUpTo(end, lengths, n) ==
    /\ end \in [0 .. n -> Nat]
    /\ end[0] = GlobalHeaderSize
    /\ \A i \in 1 .. n : end[i] = end[i - 1] + PacketHeaderSize + lengths[i]

LEMMA FileSizeIsAnEnd ==
    ASSUME NEW lengths, NEW end, AreEnds(end, lengths)
    PROVE  \E e : AreEnds(e, lengths) /\ FileSize(lengths) = e[Len(lengths)]
<1> DEFINE e == CHOOSE f : AreEnds(f, lengths)
<1>1. AreEnds(e, lengths)
    OBVIOUS
<1>2. FileSize(lengths) = e[Len(lengths)]
    BY DEF FileSize, AreEnds
<1> QED
    BY <1>1, <1>2

(* The first n lengths of a list have ends, for every n. *)
LEMMA EndsExist ==
    ASSUME NEW lengths \in Seq(Nat), NEW n \in 0 .. Len(lengths)
    PROVE  \E end : EndsUpTo(end, lengths, n)
<1> DEFINE S == {k \in Nat : k <= Len(lengths) => \E end : EndsUpTo(end, lengths, k)}
<1>1. 0 \in S
    <2>1. EndsUpTo([i \in 0 .. 0 |-> GlobalHeaderSize], lengths, 0)
        BY DEF EndsUpTo, GlobalHeaderSize
    <2> QED
        BY <2>1
<1>2. ASSUME NEW k \in Nat, k \in S PROVE k + 1 \in S
    <2> SUFFICES ASSUME k + 1 <= Len(lengths)
                 PROVE  \E end : EndsUpTo(end, lengths, k + 1)
        OBVIOUS
    <2>0. Len(lengths) \in Nat /\ k + 1 \in 1 .. Len(lengths) /\ lengths[k + 1] \in Nat
        OBVIOUS
    <2>1. PICK end : EndsUpTo(end, lengths, k)
        BY <1>2, <2>0
    <2> DEFINE longer == [i \in 0 .. k + 1 |->
                             IF i = k + 1 THEN end[k] + PacketHeaderSize + lengths[k + 1]
                                          ELSE end[i]]
    <2>2. longer \in [0 .. k + 1 -> Nat]
        BY <2>0, <2>1 DEF EndsUpTo, PacketHeaderSize
    <2>3. longer[0] = GlobalHeaderSize
        BY <2>1 DEF EndsUpTo
    <2>4. ASSUME NEW i \in 1 .. k + 1
          PROVE  longer[i] = longer[i - 1] + PacketHeaderSize + lengths[i]
        BY <2>1 DEF EndsUpTo
    <2> QED
        BY <2>2, <2>3, <2>4 DEF EndsUpTo
<1> HIDE DEF S
<1>3. \A m \in Nat : m \in S
    BY <1>1, <1>2, SetInduction
<1> QED
    BY <1>3 DEF S

LEMMA EndsAreEnds ==
    ASSUME NEW lengths \in Seq(Nat), NEW end, EndsUpTo(end, lengths, Len(lengths))
    PROVE  AreEnds(end, lengths)
<1> DEFINE f == [i \in 0 .. Len(lengths) |->
                    IF i = 0 THEN GlobalHeaderSize
                             ELSE end[i - 1] + PacketHeaderSize + lengths[i]]
<1>1. ASSUME NEW i \in 0 .. Len(lengths) PROVE end[i] = f[i]
    BY DEF EndsUpTo
<1>2. end = f
    BY <1>1 DEF EndsUpTo
<1> QED
    BY <1>2 DEF AreEnds

(* And what they are is unique. *)
LEMMA EndsAreUnique ==
    ASSUME NEW lengths \in Seq(Nat), NEW end, NEW e,
           EndsUpTo(end, lengths, Len(lengths)), AreEnds(e, lengths),
           NEW n \in 0 .. Len(lengths)
    PROVE  e[n] = end[n]
<1>0. \A i \in 0 .. Len(lengths) :
          e[i] = IF i = 0 THEN GlobalHeaderSize
                          ELSE e[i - 1] + PacketHeaderSize + lengths[i]
    BY DEF AreEnds
<1> DEFINE S == {k \in Nat : k <= Len(lengths) => e[k] = end[k]}
<1>1. 0 \in S
    BY <1>0 DEF EndsUpTo
<1>2. ASSUME NEW k \in Nat, k \in S PROVE k + 1 \in S
    <2> SUFFICES ASSUME k + 1 <= Len(lengths) PROVE e[k + 1] = end[k + 1]
        OBVIOUS
    <2>1. k + 1 \in 1 .. Len(lengths) /\ (k + 1) - 1 = k /\ e[k] = end[k]
        BY <1>2
    <2> QED
        BY <1>0, <2>1 DEF EndsUpTo
<1> HIDE DEF S
<1>3. \A m \in Nat : m \in S
    BY <1>1, <1>2, SetInduction
<1> QED
    BY <1>3 DEF S

LEMMA FileSizeIsLastEnd ==
    ASSUME NEW lengths \in Seq(Nat), NEW end, EndsUpTo(end, lengths, Len(lengths))
    PROVE  FileSize(lengths) = end[Len(lengths)]
<1>1. PICK e : AreEnds(e, lengths) /\ FileSize(lengths) = e[Len(lengths)]
    BY EndsAreEnds, FileSizeIsAnEnd
<1> QED
    BY <1>1, EndsAreUnique

(* A file without records is its global header. *)
LEMMA FileSizeOfNone ==
    ASSUME NEW lengths \in Seq(Nat), Len(lengths) = 0
    PROVE  FileSize(lengths) = GlobalHeaderSize
<1>1. PICK end : EndsUpTo(end, lengths, 0)
    <2>1. 0 \in 0 .. Len(lengths)
        OBVIOUS
    <2> QED
        BY <2>1, EndsExist
<1> QED
    BY <1>1, FileSizeIsLastEnd DEF EndsUpTo

(* A record more makes it longer by a packet header and the packet.         *)
LEMMA FileSizeOfOneMore ==
    ASSUME NEW lengths \in Seq(Nat), NEW longer \in Seq(Nat),
           Len(longer) = Len(lengths) + 1,
           \A i \in DOMAIN lengths : longer[i] = lengths[i]
    PROVE  /\ FileSize(lengths) \in Nat
           /\ FileSize(longer) = FileSize(lengths) + PacketHeaderSize + longer[Len(longer)]
<1> DEFINE n == Len(lengths)
<1>1. PICK end : EndsUpTo(end, longer, Len(longer))
    BY EndsExist
<1> DEFINE front == [i \in 0 .. n |-> end[i]]
<1>2. EndsUpTo(front, lengths, n)
    <2>1. n \in Nat /\ DOMAIN lengths = 1 .. n
        OBVIOUS
    <2>2. front \in [0 .. n -> Nat] /\ front[0] = GlobalHeaderSize
        BY <1>1, <2>1 DEF EndsUpTo
    <2>3. ASSUME NEW i \in 1 .. n
          PROVE  front[i] = front[i - 1] + PacketHeaderSize + lengths[i]
        <3>1. i \in 0 .. n /\ i - 1 \in 0 .. n /\ i \in DOMAIN lengths
            BY <2>1
        <3>2. front[i] = end[i] /\ front[i - 1] = end[i - 1] /\ longer[i] = lengths[i]
            BY <3>1
        <3>3. i \in 1 .. Len(longer)
            BY <2>1
        <3> QED
            BY <1>1, <3>2, <3>3 DEF EndsUpTo
    <2> QED
        BY <2>2, <2>3 DEF EndsUpTo
<1>3. FileSize(lengths) = front[n] /\ FileSize(longer) = end[n + 1]
    BY <1>1, <1>2, FileSizeIsLastEnd
<1>4. front[n] = end[n] /\ end[n] \in Nat
    BY <1>1 DEF EndsUpTo
<1>5. end[n + 1] = end[n] + PacketHeaderSize + longer[n + 1]
    BY <1>1 DEF EndsUpTo
<1> QED
    BY <1>3, <1>4, <1>5

-----------------------------------------------------------------------------
(* The lengths in the two files. *)

(* The captured lengths of the first n records. *)
CapturedLengths(list, n) == [i \in 1 .. n |-> list[i].captured_len]

KeptLengths(list) == [i \in DOMAIN list |-> list[i].incl_len]

LEMMA CapturedSize ==
    ASSUME NEW list \in Seq(Packet)
    PROVE  /\ FileSize(CapturedLengths(list, 0)) = GlobalHeaderSize
           /\ \A n \in 0 .. Len(list) : FileSize(CapturedLengths(list, n)) \in Nat
           /\ \A n \in 1 .. Len(list) :
                 FileSize(CapturedLengths(list, n)) =
                    FileSize(CapturedLengths(list, n - 1)) + PacketHeaderSize
                        + list[n].captured_len
           /\ WholeSize(list) = FileSize(CapturedLengths(list, Len(list)))
<1>1. \A i \in 1 .. Len(list) : list[i].captured_len \in Nat
    BY FeedAssumption, PacketNumbers
<1>2. \A n \in 0 .. Len(list) :
          CapturedLengths(list, n) \in Seq(Nat) /\ Len(CapturedLengths(list, n)) = n
    BY <1>1 DEF CapturedLengths
<1>3. FileSize(CapturedLengths(list, 0)) = GlobalHeaderSize
    <2>1. 0 \in 0 .. Len(list)
        OBVIOUS
    <2> QED
        BY <1>2, <2>1, FileSizeOfNone
<1>4. ASSUME NEW n \in 1 .. Len(list)
      PROVE  /\ FileSize(CapturedLengths(list, n - 1)) \in Nat
             /\ FileSize(CapturedLengths(list, n)) =
                   FileSize(CapturedLengths(list, n - 1)) + PacketHeaderSize
                       + list[n].captured_len
    <2> DEFINE front == CapturedLengths(list, n - 1)
               longer == CapturedLengths(list, n)
    <2>1. n - 1 \in 0 .. Len(list) /\ n \in 0 .. Len(list)
        OBVIOUS
    <2>2. /\ front \in Seq(Nat) /\ Len(front) = n - 1
          /\ longer \in Seq(Nat) /\ Len(longer) = n
        BY <1>2, <2>1
    <2>3. \A i \in DOMAIN front : longer[i] = front[i]
        BY DEF CapturedLengths
    <2>4. longer[n] = list[n].captured_len
        BY DEF CapturedLengths
    <2> HIDE DEF front, longer
    <2>5. Len(longer) = Len(front) + 1
        BY <2>2
    <2>6. /\ FileSize(front) \in Nat
          /\ FileSize(longer) = FileSize(front) + PacketHeaderSize + longer[Len(longer)]
        BY <2>2, <2>3, <2>5, FileSizeOfOneMore
    <2> QED
        BY <2>2, <2>4, <2>6 DEF front, longer
<1>5. ASSUME NEW n \in 0 .. Len(list)
      PROVE  FileSize(CapturedLengths(list, n)) \in Nat
    <2>1. CASE n = 0
        BY <1>3, <2>1 DEF GlobalHeaderSize
    <2>2. CASE n # 0
        <3>1. n \in 1 .. Len(list)
            BY <2>2
        <3>2. /\ FileSize(CapturedLengths(list, n - 1)) \in Nat
              /\ FileSize(CapturedLengths(list, n)) =
                   FileSize(CapturedLengths(list, n - 1)) + PacketHeaderSize
                       + list[n].captured_len
              /\ list[n].captured_len \in Nat
            BY <1>1, <1>4, <3>1
        <3> QED
            BY <3>2 DEF PacketHeaderSize
    <2> QED
        BY <2>1, <2>2
<1>6. WholeSize(list) = FileSize(CapturedLengths(list, Len(list)))
    <2>1. DOMAIN list = 1 .. Len(list)
        OBVIOUS
    <2> QED
        BY <2>1 DEF WholeSize, CapturedLengths
<1> QED
    BY <1>3, <1>4, <1>5, <1>6

LEMMA KeptSize ==
    /\ FileSize(KeptLengths(<<>>)) = GlobalHeaderSize
    /\ \A list \in Seq([incl_len : Nat, orig_len : Nat]),
          new \in [incl_len : Nat, orig_len : Nat] :
          /\ FileSize(KeptLengths(list)) \in Nat
          /\ FileSize(KeptLengths(Append(list, new))) =
                FileSize(KeptLengths(list)) + PacketHeaderSize + new.incl_len
<1>1. FileSize(KeptLengths(<<>>)) = GlobalHeaderSize
    <2>1. KeptLengths(<<>>) \in Seq(Nat) /\ Len(KeptLengths(<<>>)) = 0
        BY DEF KeptLengths
    <2> QED
        BY <2>1, FileSizeOfNone
<1>2. ASSUME NEW list \in Seq([incl_len : Nat, orig_len : Nat]),
             NEW new \in [incl_len : Nat, orig_len : Nat]
      PROVE  /\ FileSize(KeptLengths(list)) \in Nat
             /\ FileSize(KeptLengths(Append(list, new))) =
                   FileSize(KeptLengths(list)) + PacketHeaderSize + new.incl_len
    <2> DEFINE front == KeptLengths(list)
               longer == KeptLengths(Append(list, new))
               n == Len(list)
    <2>1. /\ DOMAIN list = 1 .. n /\ n \in Nat
          /\ DOMAIN Append(list, new) = 1 .. n + 1
          /\ \A i \in 1 .. n : Append(list, new)[i] = list[i]
          /\ Append(list, new)[n + 1] = new
        OBVIOUS
    <2>2. \A i \in 1 .. n : list[i].incl_len \in Nat
        <3>1. \A i \in 1 .. n : list[i] \in [incl_len : Nat, orig_len : Nat]
            BY <2>1, ElementOfSeq
        <3> QED
            BY <3>1
    <2>3. front \in Seq(Nat) /\ Len(front) = n /\ DOMAIN front = 1 .. n
        BY <2>1, <2>2 DEF KeptLengths
    <2>4. \A i \in 1 .. n + 1 : Append(list, new)[i].incl_len \in Nat
        BY <2>1, <2>2
    <2>5. longer \in Seq(Nat) /\ Len(longer) = n + 1
        BY <2>1, <2>4 DEF KeptLengths
    <2>6. \A i \in DOMAIN front : longer[i] = front[i]
        BY <2>1, <2>3 DEF KeptLengths
    <2>7. longer[n + 1] = new.incl_len
        BY <2>1 DEF KeptLengths
    <2> HIDE DEF front, longer
    <2>8. /\ FileSize(front) \in Nat
          /\ FileSize(longer) = FileSize(front) + PacketHeaderSize + longer[Len(longer)]
        BY <2>3, <2>5, <2>6, FileSizeOfOneMore
    <2> QED
        BY <2>5, <2>7, <2>8 DEF front, longer
<1> QED
    BY <1>1, <1>2

-----------------------------------------------------------------------------
(* The feed. *)

(* What has been accounted for: the records that have been written. *)
InputSoFar == FileSize(CapturedLengths(records, Len(written)))
OutputSoFar == FileSize(KeptLengths(written))

SizeTypes ==
    /\ header \in Headers
    /\ file_size \in Nat
    /\ available \in Nat
    /\ next_input_offset \in 0 .. file_size
    /\ incomplete_tail_info \in {"none", "packet_header", "packet_data"}
    /\ pc \in {"open_input", "open_output", "read", "write", "done"}
    /\ error \in {"none", "unreadable", "input", "output", "incl_len"}
    /\ decision.output_len \in Nat
    /\ bytes_input \in Nat
    /\ bytes_output \in Nat
    /\ bytes_saved \in Nat
    /\ output_exists \in BOOLEAN
    /\ global_header_written \in BOOLEAN

(* A file may be shortened, and was written no longer than its records.     *)
FileInv ==
    /\ available <= file_size
    /\ file_size <= WholeSize(records)

(* The two sums of the stats are the sizes of the two files, without what   *)
(* is the same in both.                                                     *)
SumsInv ==
    /\ InputSoFar = GlobalHeaderSize + PacketHeaderSize * Len(written) + bytes_input
    /\ OutputSoFar = GlobalHeaderSize + PacketHeaderSize * Len(written) + bytes_output
    /\ bytes_output <= bytes_input

(* Where the reader is, and what is true when it has reached the end.       *)
PlaceInv ==
    /\ pc = "open_input" => next_input_offset = 0 /\ written = <<>>
    /\ pc \in {"open_output", "read"} => next_input_offset = InputSoFar
    /\ pc = "write" =>
          next_input_offset = InputSoFar + PacketHeaderSize + Current.captured_len
    /\ pc # "done" => error = "none"
    /\ pc = "done" /\ error = "none" =>
          /\ file_size = InputSoFar
          /\ bytes_saved = bytes_input - bytes_output

SizeInv == SizeTypes /\ FileInv /\ SumsInv /\ PlaceInv

LEMMA SizeInit == Init => SizeInv
<1> SUFFICES ASSUME Init PROVE SizeInv
    OBVIOUS
<1>1. records \in Seq(Packet) /\ written = <<>> /\ Len(written) = 0
    BY FeedInit DEF FeedInv, Init
<1>2. WholeSize(records) \in Nat
    <2>1. Len(records) \in 0 .. Len(records)
        BY <1>1
    <2> QED
        BY <1>1, <2>1, CapturedSize
<1>3. InputSoFar = GlobalHeaderSize /\ OutputSoFar = GlobalHeaderSize
    BY <1>1, CapturedSize, KeptSize DEF InputSoFar, OutputSoFar
<1>4. file_size \in Nat /\ file_size <= WholeSize(records) /\ available = file_size
    <2>1. /\ \/ file_size = WholeSize(records)
             \/ file_size \in Size /\ file_size < WholeSize(records)
          /\ available = file_size
        BY DEF Init
    <2>2. Size \subseteq Nat
        BY FeedAssumption
    <2>3. CASE file_size = WholeSize(records)
        BY <1>2, <2>1, <2>3
    <2>4. CASE file_size \in Size /\ file_size < WholeSize(records)
        <3>1. file_size \in Nat
            BY <2>2, <2>4
        <3> QED
            BY <1>2, <2>1, <2>4, <3>1
    <2> QED
        BY <2>1, <2>3, <2>4
<1>5. SizeTypes
    <2>1. /\ header \in Headers /\ next_input_offset = 0 /\ incomplete_tail_info = "none"
          /\ pc = "open_input" /\ error = "none" /\ decision.output_len = 0
          /\ bytes_input = 0 /\ bytes_output = 0 /\ bytes_saved = 0
          /\ output_exists = FALSE /\ global_header_written = FALSE
        BY DEF Init, NoDecision
    <2>2. next_input_offset \in 0 .. file_size
        BY <1>4, <2>1
    <2>3. output_exists \in BOOLEAN /\ global_header_written \in BOOLEAN
        BY <2>1
    <2>4. decision.output_len \in Nat /\ bytes_input \in Nat /\ bytes_output \in Nat
          /\ bytes_saved \in Nat /\ file_size \in Nat /\ available \in Nat
        BY <1>4, <2>1
    <2> QED
        BY <2>1, <2>2, <2>3, <2>4 DEF SizeTypes
<1>6. FileInv
    BY <1>4 DEF FileInv
<1>7. SumsInv
    BY <1>1, <1>3 DEF Init, SumsInv, GlobalHeaderSize, PacketHeaderSize
<1>8. PlaceInv
    BY <1>1 DEF Init, PlaceInv
<1> QED
    BY <1>5, <1>6, <1>7, <1>8 DEF SizeInv

(* Steps that neither read nor write a record.                              *)
LEMMA SizeOfOtherSteps ==
    FeedInv /\ SizeInv /\
        (\/ OpenInputFails \/ OpenInput \/ OpenOutputFails \/ OpenOutput
         \/ ReadEnd \/ HeaderIsCut \/ LengthsAreWrong \/ DataIsCut \/ ReadFails
         \/ WriteThrows \/ (\E size \in Size : Shorten(size)) \/ UNCHANGED vars)
    => SizeInv'
<1> SUFFICES ASSUME FeedInv, SizeInv,
                    \/ OpenInputFails \/ OpenInput \/ OpenOutputFails \/ OpenOutput
                    \/ ReadEnd \/ HeaderIsCut \/ LengthsAreWrong \/ DataIsCut \/ ReadFails
                    \/ WriteThrows \/ (\E size \in Size : Shorten(size)) \/ UNCHANGED vars
             PROVE  SizeInv'
    OBVIOUS
<1> USE DEF SizeInv
<1>1. /\ records' = records /\ written' = written /\ file_size' = file_size
      /\ header' = header /\ bytes_input' = bytes_input /\ bytes_output' = bytes_output
      /\ decision' = decision /\ next_packet_index' = next_packet_index
    BY DEF OpenInputFails, OpenInput, OpenOutputFails, OpenOutput, ReadEnd, HeaderIsCut,
           LengthsAreWrong, DataIsCut, ReadFails, WriteThrows, Shorten, vars, End,
           inputVars, readerVars, statsVars, outputVars
<1>2. /\ InputSoFar' = InputSoFar /\ OutputSoFar' = OutputSoFar
      /\ WholeSize(records)' = WholeSize(records) /\ Current' = Current
    BY <1>1 DEF InputSoFar, OutputSoFar, Current
<1>3. SumsInv'
    BY <1>1, <1>2 DEF SumsInv
<1>4. available' \in Nat /\ available' <= available
    BY FeedAssumption
       DEF OpenInputFails, OpenInput, OpenOutputFails, OpenOutput, ReadEnd, HeaderIsCut,
           LengthsAreWrong, DataIsCut, ReadFails, WriteThrows, Shorten, vars, End,
           SizeTypes
<1>5. FileInv'
    BY <1>1, <1>2, <1>4 DEF FileInv, SizeTypes
<1>6. CASE OpenInput
    <2>1. /\ next_input_offset' = 24 /\ available >= 24 /\ pc' = "open_output"
          /\ pc = "open_input" /\ error' = error /\ bytes_saved' = bytes_saved
          /\ incomplete_tail_info' = incomplete_tail_info
          /\ output_exists' = output_exists /\ global_header_written' = global_header_written
        BY <1>6 DEF OpenInput, GlobalHeaderSize, statsVars, outputVars
    <2>2. SizeTypes'
        BY <1>1, <1>4, <2>1 DEF SizeTypes, FileInv
    <2>3. InputSoFar = 24
        BY <2>1, CapturedSize DEF PlaceInv, InputSoFar, FeedInv, GlobalHeaderSize
    <2>4. PlaceInv'
        BY <1>1, <1>2, <2>1, <2>3 DEF PlaceInv
    <2> QED
        BY <1>3, <1>5, <2>2, <2>4
<1>7. CASE ReadEnd
    <2>1. /\ pc = "read" /\ file_size - next_input_offset = 0 /\ pc' = "done"
          /\ error' = "none" /\ bytes_saved' = bytes_input - bytes_output
          /\ next_input_offset' = next_input_offset
          /\ incomplete_tail_info' = incomplete_tail_info
          /\ output_exists' = output_exists /\ global_header_written' = global_header_written
        BY <1>7 DEF ReadEnd, AtEnd, Remaining, End, readerVars, outputVars
    <2>2. SizeTypes'
        BY <1>1, <1>4, <2>1 DEF SizeTypes, SumsInv
    <2>3. file_size = InputSoFar
        BY <2>1 DEF PlaceInv, SizeTypes
    <2>4. PlaceInv'
        BY <1>1, <1>2, <2>1, <2>3 DEF PlaceInv
    <2> QED
        BY <1>3, <1>5, <2>2, <2>4
<1>8. CASE OpenOutput
    <2>1. /\ pc = "open_output" /\ pc' = "read" /\ error' = error
          /\ next_input_offset' = next_input_offset /\ bytes_saved' = bytes_saved
          /\ incomplete_tail_info' = incomplete_tail_info
          /\ output_exists' = TRUE /\ global_header_written' = global_header_written
        BY <1>8 DEF OpenOutput, readerVars, statsVars
    <2>2. SizeTypes' /\ PlaceInv'
        BY <1>1, <1>2, <1>4, <2>1 DEF SizeTypes, PlaceInv
    <2> QED
        BY <1>3, <1>5, <2>2
<1>9. CASE \/ OpenInputFails \/ OpenOutputFails \/ HeaderIsCut \/ LengthsAreWrong
           \/ DataIsCut \/ ReadFails \/ WriteThrows
    <2>1. /\ pc' = "done" /\ error' \in {"unreadable", "input", "output", "incl_len"}
          /\ next_input_offset' = next_input_offset /\ bytes_saved' = bytes_saved
          /\ incomplete_tail_info' \in {incomplete_tail_info, "packet_header", "packet_data"}
          /\ output_exists' = output_exists
        BY <1>9
           DEF OpenInputFails, OpenOutputFails, HeaderIsCut, LengthsAreWrong, DataIsCut,
               ReadFails, WriteThrows, End, readerVars, statsVars, outputVars
    <2>2. global_header_written' \in BOOLEAN
        BY <1>9
           DEF OpenInputFails, OpenOutputFails, HeaderIsCut, LengthsAreWrong, DataIsCut,
               ReadFails, WriteThrows, SizeTypes, outputVars
    <2>3. SizeTypes' /\ PlaceInv'
        BY <1>1, <1>2, <1>4, <2>1, <2>2 DEF SizeTypes, PlaceInv
    <2> QED
        BY <1>3, <1>5, <2>3
<1>10. CASE (\E size \in Size : Shorten(size)) \/ UNCHANGED vars
    <2>1. /\ pc' = pc /\ error' = error
          /\ next_input_offset' = next_input_offset /\ bytes_saved' = bytes_saved
          /\ incomplete_tail_info' = incomplete_tail_info
          /\ output_exists' = output_exists /\ global_header_written' = global_header_written
        BY <1>10 DEF Shorten, vars, readerVars, statsVars, outputVars
    <2>2. SizeTypes' /\ PlaceInv'
        BY <1>1, <1>2, <1>4, <2>1 DEF SizeTypes, PlaceInv
    <2> QED
        BY <1>3, <1>5, <2>2
<1> QED
    BY <1>6, <1>7, <1>8, <1>9, <1>10

LEMMA SizeOfReadRecord == FeedInv /\ SizeInv /\ ReadRecord => SizeInv'
<1> SUFFICES ASSUME FeedInv, SizeInv, ReadRecord PROVE SizeInv'
    OBVIOUS
<1> USE DEF SizeInv
<1>1. /\ pc = "read" /\ pc' = "write"
      /\ records' = records /\ written' = written /\ file_size' = file_size
      /\ available' = available /\ error' = error
      /\ header' = header /\ bytes_input' = bytes_input /\ bytes_output' = bytes_output
      /\ bytes_saved' = bytes_saved /\ incomplete_tail_info' = incomplete_tail_info
      /\ output_exists' = output_exists /\ global_header_written' = global_header_written
      /\ next_input_offset' = NextRecordOffset
      /\ next_packet_index' = next_packet_index + 1
    BY DEF ReadRecord, inputVars, statsVars, outputVars
<1>2. /\ InputSoFar' = InputSoFar /\ OutputSoFar' = OutputSoFar
      /\ WholeSize(records)' = WholeSize(records)
      /\ Current' = Upcoming
    BY <1>1 DEF InputSoFar, OutputSoFar, Current, Upcoming
<1>3. Upcoming \in CapturedPacket
    <2>1. next_packet_index + 1 \in 1 .. Len(records)
        BY DEF ReadRecord, HasHeader, FeedInv
    <2> QED
        BY <2>1, FeedAssumption DEF FeedInv, Upcoming
<1>4. Upcoming.captured_len \in Nat
    BY <1>3, PacketNumbers
<1>5. /\ NextRecordOffset = next_input_offset + PacketHeaderSize + Upcoming.captured_len
      /\ NextRecordOffset \in 0 .. file_size
    BY <1>4 DEF ReadRecord, DataFits, NextRecordOffset, DataOffset, SizeTypes,
                PacketHeaderSize
<1>6. decision'.output_len \in Nat
    BY <1>3, OutputFits DEF ReadRecord, Evaluate
<1>7. SizeTypes'
    BY <1>1, <1>5, <1>6 DEF SizeTypes
<1>8. FileInv' /\ SumsInv'
    BY <1>1, <1>2 DEF FileInv, SumsInv
<1>9. PlaceInv'
    BY <1>1, <1>2, <1>5 DEF PlaceInv
<1> QED
    BY <1>7, <1>8, <1>9

LEMMA SizeOfWriteRecord == FeedInv /\ SizeInv /\ WriteRecord => SizeInv'
<1> SUFFICES ASSUME FeedInv, SizeInv, WriteRecord PROVE SizeInv'
    OBVIOUS
<1> USE DEF SizeInv
<1> DEFINE new == [incl_len |-> decision.output_len,
                   orig_len |-> OrigLen(Current, decision.output_len)]
           n == Len(written)
<1>1. /\ pc = "write" /\ pc' = "read"
      /\ records' = records /\ file_size' = file_size /\ available' = available
      /\ error' = error /\ header' = header /\ decision' = decision
      /\ bytes_input' = bytes_input + Current.captured_len
      /\ bytes_output' = bytes_output + decision.output_len
      /\ bytes_saved' = bytes_saved /\ incomplete_tail_info' = incomplete_tail_info
      /\ output_exists' = output_exists /\ global_header_written' = TRUE
      /\ next_input_offset' = next_input_offset
      /\ written' = Append(written, new)
    BY DEF WriteRecord, inputVars, readerVars
<1>2. /\ Current \in CapturedPacket /\ Decided(Current)
      /\ n \in Nat /\ n + 1 \in 1 .. Len(records) /\ Current = records[n + 1]
      /\ records \in Seq(Packet)
      /\ written \in Seq([incl_len : Nat, orig_len : Nat])
    BY <1>1, CurrentDecided DEF FeedInv, Current
<1>3. /\ Current.captured_len \in Nat /\ Current.original_len \in Nat
      /\ decision.output_len \in Nat
      /\ decision.output_len <= Current.captured_len
    BY <1>2, PacketNumbers, DecisionFits
<1>4. new \in [incl_len : Nat, orig_len : Nat] /\ new.incl_len = decision.output_len
    BY <1>3 DEF OrigLen
<1> HIDE DEF new
<1>5. Len(written') = n + 1
    BY <1>1, <1>2, <1>4
<1>6. /\ InputSoFar' = InputSoFar + PacketHeaderSize + Current.captured_len
      /\ InputSoFar \in Nat
    <2>1. n \in 0 .. Len(records) /\ (n + 1) - 1 = n
        BY <1>2
    <2>2. FileSize(CapturedLengths(records, n + 1)) =
             FileSize(CapturedLengths(records, n)) + PacketHeaderSize
                 + records[n + 1].captured_len
        BY <1>2, <2>1, CapturedSize
    <2>3. FileSize(CapturedLengths(records, n)) \in Nat
        BY <1>2, <2>1, CapturedSize
    <2> QED
        BY <1>1, <1>2, <1>5, <2>2, <2>3 DEF InputSoFar
<1>7. /\ OutputSoFar' = OutputSoFar + PacketHeaderSize + decision.output_len
      /\ OutputSoFar \in Nat
    BY <1>1, <1>2, <1>4, KeptSize DEF OutputSoFar
<1>8. SizeTypes'
    BY <1>1, <1>3 DEF SizeTypes
<1>9. FileInv'
    BY <1>1 DEF FileInv
<1>10. SumsInv'
    <2>1. /\ InputSoFar = 24 + 16 * n + bytes_input
          /\ OutputSoFar = 24 + 16 * n + bytes_output
          /\ bytes_output <= bytes_input
          /\ bytes_input \in Nat /\ bytes_output \in Nat
        BY DEF SumsInv, SizeTypes, PacketHeaderSize, GlobalHeaderSize
    <2>2. /\ InputSoFar' = InputSoFar + 16 + Current.captured_len
          /\ OutputSoFar' = OutputSoFar + 16 + decision.output_len
        BY <1>6, <1>7 DEF PacketHeaderSize
    <2>3. /\ InputSoFar' = 24 + 16 * (n + 1) + bytes_input'
          /\ OutputSoFar' = 24 + 16 * (n + 1) + bytes_output'
          /\ bytes_output' <= bytes_input'
        <3>1. \A i, c, b, o \in Nat :
                 /\ (24 + 16 * i + b) + 16 + c = 24 + 16 * (i + 1) + (b + c)
                 /\ o <= c => \A a \in Nat : a <= b => a + o <= b + c
            OBVIOUS
        <3>2. n \in Nat /\ Current.captured_len \in Nat /\ decision.output_len \in Nat
            BY <1>2, <1>3
        <3> HIDE DEF n
        <3>3. InputSoFar' = 24 + 16 * (n + 1) + (bytes_input + Current.captured_len)
            BY <2>1, <2>2, <3>1, <3>2
        <3>4. OutputSoFar' = 24 + 16 * (n + 1) + (bytes_output + decision.output_len)
            BY <2>1, <2>2, <3>1, <3>2
        <3>5. bytes_output + decision.output_len <= bytes_input + Current.captured_len
            BY <1>3, <2>1
        <3> QED
            BY <1>1, <3>3, <3>4, <3>5
    <2> QED
        BY <1>5, <2>3 DEF SumsInv, PacketHeaderSize, GlobalHeaderSize
<1>11. PlaceInv'
    BY <1>1, <1>6 DEF PlaceInv
<1> QED
    BY <1>8, <1>9, <1>10, <1>11

LEMMA SizeStep == FeedInv /\ SizeInv /\ [Next]_vars => SizeInv'
BY SizeOfOtherSteps, SizeOfReadRecord, SizeOfWriteRecord DEF Next, Feed

(* For every input file: the offset of the reader, the sums of the stats    *)
(* and the size of the output are the sums over the records read so far.    *)
THEOREM SizesAgree == Spec => []SizeInv
<1> QED
    BY SizeInit, SizeStep, FeedInvariant, PTL DEF Spec

(* The types of the feed; the reader never leaves the file, and no count of *)
(* bytes goes below zero.                                                   *)
THEOREM FeedTypes == Spec => []TypeOK
<1>1. FeedInv /\ SizeInv /\ StatsInv => TypeOK
    BY DEF FeedInv, SizeInv, SizeTypes, PlaceInv, StatsInv, TypeOK
<1>2. Spec => []StatsInv
    BY StatsInit, StatsStep, FeedInvariant, PTL DEF Spec
<1> QED
    BY <1>1, <1>2, FeedInvariant, SizesAgree, PTL

(* A feed that succeeds has converted the whole input, and bytes_saved is   *)
(* what its output is shorter than the input (OfflinePacketFeed::Run).      *)
THEOREM SuccessIsAlwaysComplete == Spec => []SuccessIsComplete
<1>1. ASSUME FeedInv, SizeInv PROVE SuccessIsComplete
    <2> SUFFICES ASSUME pc = "done", error = "none"
                 PROVE  /\ WholeSize(SubSeq(records, 1, Len(written))) = file_size
                        /\ FileSize([i \in DOMAIN written |-> written[i].incl_len])
                               + bytes_saved = file_size
        BY DEF SuccessIsComplete
    <2> DEFINE n == Len(written)
    <2>1. /\ n \in 0 .. Len(records) /\ n \in Nat /\ Len(records) \in Nat
          /\ records \in Seq(Packet)
        BY <1>1 DEF FeedInv
    <2>2. /\ file_size = InputSoFar /\ bytes_saved = bytes_input - bytes_output
          /\ bytes_input \in Nat /\ bytes_output \in Nat
        BY <1>1 DEF SizeInv, PlaceInv, SizeTypes
    <2>3. WholeSize(SubSeq(records, 1, n)) = InputSoFar
        <3>1. /\ DOMAIN SubSeq(records, 1, n) = 1 .. n
              /\ \A i \in 1 .. n : SubSeq(records, 1, n)[i] = records[i]
            BY <2>1
        <3>2. [i \in DOMAIN SubSeq(records, 1, n) |->
                    SubSeq(records, 1, n)[i].captured_len] = CapturedLengths(records, n)
            BY <3>1 DEF CapturedLengths
        <3> QED
            BY <3>2 DEF WholeSize, InputSoFar
    <2>4. FileSize([i \in DOMAIN written |-> written[i].incl_len]) = OutputSoFar
        BY DEF OutputSoFar, KeptLengths
    <2>5. OutputSoFar + bytes_saved = InputSoFar
        BY <1>1, <2>1, <2>2 DEF SizeInv, SumsInv, GlobalHeaderSize, PacketHeaderSize
    <2> QED
        BY <2>2, <2>3, <2>4, <2>5
<1> QED
    BY <1>1, FeedInvariant, SizesAgree, PTL

(* Every place in the file is one the reader can go on from: bytes left for *)
(* another header mean that there is another record, so that one of the     *)
(* cases of PcapReader::ReadNext applies.                                   *)
HeaderHasRecord ==
    pc = "read" /\ Remaining >= PacketHeaderSize => next_packet_index < Len(records)

THEOREM ReadNextNeverStuck == Spec => []HeaderHasRecord
<1>1. ASSUME FeedInv, SizeInv PROVE HeaderHasRecord
    <2> SUFFICES ASSUME pc = "read", Remaining >= PacketHeaderSize,
                        ~ (next_packet_index < Len(records))
                 PROVE  FALSE
        BY DEF HeaderHasRecord
    <2>1. /\ next_packet_index = Len(records) /\ Len(written) = Len(records)
          /\ records \in Seq(Packet)
        BY <1>1 DEF FeedInv
    <2>2. next_input_offset = WholeSize(records)
        BY <1>1, <2>1, CapturedSize DEF SizeInv, PlaceInv, InputSoFar
    <2>3. file_size \in Nat /\ next_input_offset \in Nat /\ file_size <= next_input_offset
        BY <1>1, <2>2 DEF SizeInv, SizeTypes, FileInv
    <2> QED
        BY <2>3 DEF Remaining, PacketHeaderSize
<1> QED
    BY <1>1, FeedInvariant, SizesAgree, PTL

-----------------------------------------------------------------------------
(* The end of the feed. *)

(* How many steps the feed may still take. *)
StepsLeft ==
    2 * (Len(records) - next_packet_index) +
        CASE pc = "open_input" -> 3
          [] pc = "open_output" -> 2
          [] pc = "read" -> 1
          [] pc = "write" -> 2
          [] OTHER -> 0

(* Each step of the feed leaves fewer of them, and shortening the input     *)
(* adds none.                                                               *)
FeedApproachesEnd ==
    [][/\ StepsLeft' \in Nat
       /\ Feed => StepsLeft' < StepsLeft
       /\ (\E size \in Size : Shorten(size)) => StepsLeft' = StepsLeft]_vars

(* What FeedEnds rests on besides the fairness of Feed: whatever the file   *)
(* holds, also records without bytes, and whatever happens to it, the loop  *)
(* of OfflinePacketFeed::Run takes a bounded number of steps.               *)
THEOREM FeedAlwaysApproachesEnd == Spec => FeedApproachesEnd
<1>1. FeedInv /\ SizeInv /\ [Next]_vars /\ FeedInv' /\ SizeInv' =>
         [/\ StepsLeft' \in Nat
          /\ Feed => StepsLeft' < StepsLeft
          /\ (\E size \in Size : Shorten(size)) => StepsLeft' = StepsLeft]_vars
    <2> SUFFICES ASSUME FeedInv, SizeInv, Next, FeedInv', SizeInv'
                 PROVE  /\ StepsLeft' \in Nat
                        /\ Feed => StepsLeft' < StepsLeft
                        /\ (\E size \in Size : Shorten(size)) => StepsLeft' = StepsLeft
        BY DEF vars
    <2>1. /\ Len(records) \in Nat /\ next_packet_index \in 0 .. Len(records)
          /\ Len(records)' \in Nat /\ next_packet_index' \in 0 .. Len(records)'
          /\ pc' \in {"open_input", "open_output", "read", "write", "done"}
        BY DEF FeedInv, SizeInv, SizeTypes
    <2>2. records' = records
        BY DEF Next, Feed, OpenInputFails, OpenInput, OpenOutputFails, OpenOutput, ReadEnd,
               HeaderIsCut, LengthsAreWrong, DataIsCut, ReadFails, ReadRecord, WriteRecord,
               WriteThrows, Shorten, inputVars
    <2>3. StepsLeft' \in Nat
        BY <2>1 DEF StepsLeft
    <2>4. ASSUME \/ OpenInputFails \/ OpenOutputFails \/ ReadEnd \/ HeaderIsCut
                 \/ LengthsAreWrong \/ DataIsCut \/ ReadFails \/ WriteThrows
          PROVE  StepsLeft' < StepsLeft
        <3>1. /\ pc \in {"open_input", "open_output", "read", "write"} /\ pc' = "done"
              /\ next_packet_index' = next_packet_index
            BY <2>4
               DEF OpenInputFails, OpenOutputFails, ReadEnd, HeaderIsCut, LengthsAreWrong,
                   DataIsCut, ReadFails, WriteThrows, End, readerVars
        <3> QED
            BY <2>1, <2>2, <3>1 DEF StepsLeft
    <2>5. ASSUME OpenInput \/ OpenOutput \/ WriteRecord
          PROVE  StepsLeft' < StepsLeft
        <3>1. /\ <<pc, pc'>> \in {<<"open_input", "open_output">>, <<"open_output", "read">>,
                                  <<"write", "read">>}
              /\ next_packet_index' = next_packet_index
            BY <2>5 DEF OpenInput, OpenOutput, WriteRecord, readerVars
        <3> QED
            BY <2>1, <2>2, <3>1 DEF StepsLeft
    <2>6. ASSUME ReadRecord
          PROVE  StepsLeft' < StepsLeft
        <3>1. pc = "read" /\ pc' = "write" /\ next_packet_index' = next_packet_index + 1
            BY <2>6 DEF ReadRecord
        <3> QED
            BY <2>1, <2>2, <3>1 DEF StepsLeft
    <2>7. ASSUME \E size \in Size : Shorten(size)
          PROVE  StepsLeft' = StepsLeft
        BY <2>2, <2>7 DEF Shorten, readerVars, StepsLeft
    <2> QED
        BY <2>3, <2>4, <2>5, <2>6, <2>7 DEF Feed
<1> QED
    BY <1>1, FeedInvariant, SizesAgree, PTL DEF Spec, FeedApproachesEnd

-----------------------------------------------------------------------------
(* What becomes of a good input. *)

(* Nothing is wrong with the input, and nobody has shortened it.            *)
InputIsGood ==
    /\ header = "good"
    /\ file_size = WholeSize(records)
    /\ available = file_size
    /\ \A i \in DOMAIN records : records[i].captured_len <= records[i].original_len

GoodIsAccepted == error = "input" => ~InputIsGood

GoodInputIsConverted ==
    pc = "done" /\ InputIsGood =>
        \/ error \in {"unreadable", "output"}
        \/ error = "none" /\ Len(written) = Len(records)

(* The global header is written with the first record. *)
HeaderIsFirst == error = "none" => (global_header_written <=> written # <<>>)

PcapUnlessEmpty ==
    pc = "done" /\ error = "none" =>
        (global_header_written <=> file_size # GlobalHeaderSize)

(* More records, more bytes. *)
LEMMA SizesGrow ==
    ASSUME NEW list \in Seq(Packet), NEW a \in 0 .. Len(list)
    PROVE  FileSize(CapturedLengths(list, a)) <= WholeSize(list)
<1> DEFINE size(n) == FileSize(CapturedLengths(list, n))
           S == {k \in Nat : a + k <= Len(list) => size(a) <= size(a + k)}
<1>1. /\ Len(list) \in Nat /\ a \in Nat
      /\ \A n \in 0 .. Len(list) : size(n) \in Nat
      /\ \A n \in 1 .. Len(list) : size(n) = size(n - 1) + 16 + list[n].captured_len
      /\ \A n \in 1 .. Len(list) : list[n].captured_len \in Nat
      /\ WholeSize(list) = size(Len(list))
    <2>1. Len(list) \in Nat /\ a \in Nat
        OBVIOUS
    <2>2. \A n \in 1 .. Len(list) : list[n] \in CapturedPacket
        BY FeedAssumption
    <2>3. \A n \in 1 .. Len(list) : list[n].captured_len \in Nat
        BY <2>2, PacketNumbers
    <2> QED
        BY <2>1, <2>3, CapturedSize DEF PacketHeaderSize
<1> HIDE DEF size
<1>2. 0 \in S
    BY <1>1
<1>3. ASSUME NEW k \in Nat, k \in S PROVE k + 1 \in S
    <2> SUFFICES ASSUME a + (k + 1) <= Len(list) PROVE size(a) <= size(a + (k + 1))
        OBVIOUS
    <2>1. /\ a + (k + 1) \in 1 .. Len(list) /\ (a + (k + 1)) - 1 = a + k
          /\ a + k \in 0 .. Len(list)
        BY <1>1
    <2>2. size(a) <= size(a + k)
        BY <1>1, <1>3, <2>1
    <2>3. size(a + (k + 1)) = size(a + k) + 16 + list[a + (k + 1)].captured_len
        BY <1>1, <2>1
    <2>4. /\ size(a + k) \in Nat /\ size(a) \in Nat
          /\ list[a + (k + 1)].captured_len \in Nat
        BY <1>1, <2>1
    <2> QED
        BY <2>2, <2>3, <2>4
<1> HIDE DEF S
<1>4. \A k \in Nat : k \in S
    BY <1>2, <1>3, SetInduction
<1>5. Len(list) - a \in Nat /\ a + (Len(list) - a) = Len(list)
    BY <1>1
<1>6. Len(list) - a \in S
    BY <1>4, <1>5
<1> QED
    BY <1>1, <1>5, <1>6 DEF S, size

(* Where the reader of a complete file stands between two records.          *)
LEMMA BetweenRecords ==
    ASSUME FeedInv, SizeInv, pc = "read", file_size = WholeSize(records)
    PROVE  \/ next_packet_index = Len(records) /\ AtEnd
           \/ /\ next_packet_index < Len(records)
              /\ Upcoming.captured_len \in Nat
              /\ NextRecordOffset <= file_size
              /\ DataOffset <= file_size
              /\ DataFits
              /\ ~(Remaining < PacketHeaderSize)
<1> DEFINE n == next_packet_index
           size(m) == FileSize(CapturedLengths(records, m))
<1>1. /\ records \in Seq(Packet) /\ n \in 0 .. Len(records) /\ Len(records) \in Nat
      /\ Len(written) = n
      /\ next_input_offset = size(n)
      /\ WholeSize(records) = size(Len(records))
    BY CapturedSize DEF FeedInv, SizeInv, PlaceInv, InputSoFar
<1>2. size(n) \in Nat
    BY <1>1, CapturedSize
<1>3. CASE n = Len(records)
    BY <1>1, <1>2, <1>3 DEF AtEnd, Remaining
<1>4. CASE n < Len(records)
    <2>1. n + 1 \in 1 .. Len(records) /\ n + 1 \in 0 .. Len(records) /\ (n + 1) - 1 = n
        BY <1>1, <1>4
    <2>2. size(n + 1) = size(n) + PacketHeaderSize + Upcoming.captured_len
        BY <1>1, <2>1, CapturedSize DEF Upcoming
    <2>3. size(n + 1) <= file_size
        BY <1>1, <2>1, SizesGrow
    <2>4. Upcoming \in CapturedPacket
        BY <1>1, <2>1, FeedAssumption DEF Upcoming
    <2>5. Upcoming.captured_len \in Nat /\ file_size \in Nat
        BY <2>4, PacketNumbers DEF SizeInv, SizeTypes
    <2> HIDE DEF size, n
    <2>6. /\ DataOffset = size(n) + 16
          /\ NextRecordOffset = size(n) + 16 + Upcoming.captured_len
          /\ size(n) + 16 + Upcoming.captured_len <= file_size
          /\ Remaining = file_size - size(n)
        BY <1>1, <2>2, <2>3 DEF DataOffset, NextRecordOffset, Remaining, PacketHeaderSize
    <2>7. /\ NextRecordOffset <= file_size /\ DataOffset <= file_size
          /\ DataFits /\ ~(Remaining < PacketHeaderSize)
        BY <1>2, <2>5, <2>6 DEF DataFits, PacketHeaderSize
    <2> QED
        BY <1>4, <2>5, <2>7 DEF n
<1> QED
    BY <1>1, <1>3, <1>4

LEMMA AcceptedStep ==
    FeedInv /\ SizeInv /\ GoodIsAccepted /\ [Next]_vars => GoodIsAccepted'
<1> SUFFICES ASSUME FeedInv, SizeInv, GoodIsAccepted, [Next]_vars,
                    error' = "input", InputIsGood'
             PROVE  FALSE
    BY DEF GoodIsAccepted
<1>1. /\ header' = header /\ records' = records /\ file_size' = file_size
      /\ available' \in Nat /\ available' <= available
    BY FeedAssumption
       DEF Next, Feed, OpenInputFails, OpenInput, OpenOutputFails, OpenOutput, ReadEnd,
           HeaderIsCut, LengthsAreWrong, DataIsCut, ReadFails, ReadRecord, WriteRecord,
           WriteThrows, Shorten, vars, inputVars, readerVars, SizeInv, SizeTypes
<1>2. /\ available \in Nat /\ file_size \in Nat /\ available <= file_size
      /\ records \in Seq(Packet)
    BY DEF SizeInv, SizeTypes, FileInv, FeedInv
<1>3. InputIsGood
    <2>1. /\ header' = "good" /\ file_size' = WholeSize(records)' /\ available' = file_size'
          /\ \A i \in DOMAIN records' : records'[i].captured_len <= records'[i].original_len
        BY DEF InputIsGood
    <2>2. WholeSize(records)' = WholeSize(records)
        BY <1>1
    <2>3. available = file_size
        BY <1>1, <1>2, <2>1
    <2> QED
        BY <1>1, <2>1, <2>2, <2>3 DEF InputIsGood
<1>4. header = "good" /\ file_size = WholeSize(records) /\ available = file_size
    BY <1>3 DEF InputIsGood
<1>5. error # "input"
    BY <1>3 DEF GoodIsAccepted
<1>6. CASE OpenInputFails
    <2>1. 0 \in 0 .. Len(records)
        BY <1>2
    <2>2. GlobalHeaderSize <= WholeSize(records)
        BY <1>2, <2>1, SizesGrow, CapturedSize
    <2> QED
        BY <1>2, <1>4, <1>6, <2>2 DEF OpenInputFails, GlobalHeaderSize, End
<1>7. CASE HeaderIsCut
    BY <1>4, <1>7, BetweenRecords DEF HeaderIsCut
<1>8. CASE LengthsAreWrong
    <2>1. next_packet_index + 1 \in DOMAIN records
        BY <1>2, <1>8 DEF LengthsAreWrong, HasHeader, FeedInv
    <2>2. Upcoming.captured_len <= Upcoming.original_len
        BY <1>3, <2>1 DEF InputIsGood, Upcoming
    <2>3. Upcoming.captured_len \in Nat /\ Upcoming.original_len \in Nat
        <3>1. Upcoming \in CapturedPacket
            BY <1>2, <2>1, FeedAssumption DEF Upcoming
        <3> QED
            BY <3>1, PacketNumbers
    <2> QED
        BY <1>8, <2>2, <2>3 DEF LengthsAreWrong
<1>9. CASE DataIsCut
    <2>1. pc = "read" /\ ~DataFits /\ next_packet_index < Len(records)
        BY <1>9 DEF DataIsCut, HasHeader
    <2>2. next_packet_index \in Nat /\ Len(records) \in Nat
        BY <1>2 DEF FeedInv
    <2> QED
        BY <1>4, <2>1, <2>2, BetweenRecords
<1>10. CASE ReadFails
    <2>1. /\ pc = "read" /\ next_packet_index < Len(records)
          /\ available < DataOffset \/ available < NextRecordOffset
        BY <1>10 DEF ReadFails, HasHeader
    <2>2. next_packet_index \in Nat /\ Len(records) \in Nat
        BY <1>2 DEF FeedInv
    <2>3. DataOffset <= file_size /\ NextRecordOffset <= file_size
        BY <1>4, <2>1, <2>2, BetweenRecords
    <2>4. DataOffset \in Int /\ NextRecordOffset \in Int
        <3>1. next_input_offset \in Nat
            BY DEF SizeInv, SizeTypes
        <3>2. Upcoming.captured_len \in Nat
            BY <1>4, <2>1, <2>2, BetweenRecords
        <3> QED
            BY <3>1, <3>2 DEF DataOffset, NextRecordOffset, PacketHeaderSize
    <2> QED
        BY <1>2, <1>4, <2>1, <2>3, <2>4
<1>11. CASE \/ OpenInput \/ OpenOutputFails \/ OpenOutput \/ ReadEnd \/ ReadRecord
            \/ WriteRecord \/ WriteThrows \/ (\E size \in Size : Shorten(size))
            \/ UNCHANGED vars
    BY <1>5, <1>11
       DEF OpenInput, OpenOutputFails, OpenOutput, ReadEnd, ReadRecord, WriteRecord,
           WriteThrows, Shorten, vars, End
<1> QED
    BY <1>6, <1>7, <1>8, <1>9, <1>10, <1>11 DEF Next, Feed

(* No false alarm: PcapReader finds fault only with a file that has one.  A *)
(* good input that stays as it was is converted to its last record, unless  *)
(* it cannot be opened, or the output cannot be opened or written.          *)
THEOREM GoodInputIsAlwaysConverted == Spec => []GoodInputIsConverted
<1>1. Init => GoodIsAccepted
    BY DEF Init, GoodIsAccepted
<1>2. FeedInv /\ SizeInv /\ GoodIsAccepted => GoodInputIsConverted
    <2> SUFFICES ASSUME FeedInv, SizeInv, GoodIsAccepted, pc = "done", InputIsGood,
                        error \notin {"unreadable", "output"}
                 PROVE  error = "none" /\ Len(written) = Len(records)
        BY DEF GoodInputIsConverted
    <2>1. error = "none"
        BY DEF FeedInv, SizeInv, SizeTypes, GoodIsAccepted
    <2>2. /\ file_size = InputSoFar /\ file_size = WholeSize(records)
          /\ records \in Seq(Packet) /\ Len(written) \in 0 .. Len(records)
          /\ Len(records) \in Nat
        BY <2>1 DEF SizeInv, PlaceInv, InputIsGood, FeedInv
    <2>3. ASSUME Len(written) # Len(records) PROVE FALSE
        <3> DEFINE n == Len(written)
        <3>1. n + 1 \in 1 .. Len(records) /\ n + 1 \in 0 .. Len(records) /\ (n + 1) - 1 = n
            BY <2>2, <2>3
        <3>2. FileSize(CapturedLengths(records, n + 1)) =
                 InputSoFar + PacketHeaderSize + records[n + 1].captured_len
            BY <2>2, <3>1, CapturedSize DEF InputSoFar
        <3>3. FileSize(CapturedLengths(records, n + 1)) <= WholeSize(records)
            BY <2>2, <3>1, SizesGrow
        <3>4. InputSoFar \in Nat /\ records[n + 1].captured_len \in Nat
            <4>1. records[n + 1] \in CapturedPacket
                BY <2>2, <3>1, FeedAssumption
            <4> QED
                BY <2>2, <4>1, CapturedSize, PacketNumbers DEF InputSoFar
        <3> QED
            BY <2>2, <3>2, <3>3, <3>4 DEF PacketHeaderSize
    <2> QED
        BY <2>1, <2>3
<1> QED
    BY <1>1, <1>2, AcceptedStep, FeedInvariant, SizesAgree, PTL DEF Spec

(* README.md "Classic PCAP output" is true of every run that succeeds on an *)
(* input with at least one record, and of no other: the finding about       *)
(* SuccessMeansPcap is about the file that is a global header alone.        *)
THEOREM SuccessLeavesPcap == Spec => []PcapUnlessEmpty
<1>1. Init => HeaderIsFirst
    BY DEF Init, HeaderIsFirst
<1>2. FeedInv /\ SizeInv /\ HeaderIsFirst /\ [Next]_vars => HeaderIsFirst'
    <2> SUFFICES ASSUME FeedInv, SizeInv, HeaderIsFirst, [Next]_vars PROVE HeaderIsFirst'
        OBVIOUS
    <2>1. CASE WriteRecord
        <3>1. written \in Seq([incl_len : Nat, orig_len : Nat])
            BY DEF FeedInv
        <3>2. global_header_written' = TRUE /\ \E x : written' = Append(written, x)
            BY <2>1 DEF WriteRecord
        <3>3. written' # <<>>
            BY <3>1, <3>2
        <3> QED
            BY <3>2, <3>3 DEF HeaderIsFirst
    <2>2. CASE \/ OpenInputFails \/ OpenOutputFails \/ HeaderIsCut \/ LengthsAreWrong
               \/ DataIsCut \/ ReadFails \/ WriteThrows
        <3>1. error' # "none"
            BY <2>2 DEF OpenInputFails, OpenOutputFails, HeaderIsCut, LengthsAreWrong,
                        DataIsCut, ReadFails, WriteThrows, End
        <3> QED
            BY <3>1 DEF HeaderIsFirst
    <2>3. CASE OpenInput \/ OpenOutput \/ ReadRecord \/ (\E size \in Size : Shorten(size))
               \/ UNCHANGED vars
        <3>1. /\ error' = error /\ written' = written
              /\ global_header_written' = global_header_written
            BY <2>3 DEF OpenInput, OpenOutput, ReadRecord, Shorten, vars, outputVars
        <3> QED
            BY <3>1 DEF HeaderIsFirst
    <2>4. CASE ReadEnd
        <3>1. /\ error = "none" /\ written' = written
              /\ global_header_written' = global_header_written
            BY <2>4 DEF ReadEnd, outputVars, SizeInv, PlaceInv
        <3> QED
            BY <3>1 DEF HeaderIsFirst
    <2> QED
        BY <2>1, <2>2, <2>3, <2>4 DEF Next, Feed
<1>3. FeedInv /\ SizeInv /\ HeaderIsFirst => PcapUnlessEmpty
    <2> SUFFICES ASSUME FeedInv, SizeInv, HeaderIsFirst, pc = "done", error = "none"
                 PROVE  global_header_written <=> file_size # GlobalHeaderSize
        BY DEF PcapUnlessEmpty
    <2>1. file_size = InputSoFar
        BY DEF SizeInv, PlaceInv
    <2>2. /\ records \in Seq(Packet) /\ Len(written) \in 0 .. Len(records)
          /\ written \in Seq([incl_len : Nat, orig_len : Nat])
        BY DEF FeedInv
    <2>3. CASE written = <<>>
        <3>1. InputSoFar = GlobalHeaderSize
            BY <2>2, <2>3, CapturedSize DEF InputSoFar
        <3> QED
            BY <2>1, <2>3, <3>1 DEF HeaderIsFirst
    <2>4. CASE written # <<>>
        <3>1. Len(written) \in Nat /\ Len(written) >= 1
            BY <2>2, <2>4, EmptySeq
        <3>2. /\ InputSoFar = GlobalHeaderSize + PacketHeaderSize * Len(written) + bytes_input
              /\ bytes_input \in Nat
            BY DEF SizeInv, SumsInv, SizeTypes
        <3>3. InputSoFar # GlobalHeaderSize
            BY <3>1, <3>2 DEF GlobalHeaderSize, PacketHeaderSize
        <3> QED
            BY <2>1, <2>4, <3>3 DEF HeaderIsFirst
    <2> QED
        BY <2>3, <2>4
<1> QED
    BY <1>1, <1>2, <1>3, FeedInvariant, SizesAgree, PTL DEF Spec

=============================================================================
